---- MODULE Spec2Model ----
(***************************************************************************)
(* AbstractStoreLayer (src/src/index.js): the adjacent-key computation     *)
(* (getPreviousKey / getNextKey and their per-component rules) and the     *)
(* range-selector normalisation (normalizeKeySelectors).                   *)
(*                                                                         *)
(* Representation of JavaScript values.                                    *)
(*   - a string is the sequence of its 16-bit code units;                  *)
(*   - a number is a fixed-point multiple of 10^-6 (an integer count of    *)
(*     micro-units), so that "key - 0.000001" is "val - 1"; the rounding   *)
(*     of IEEE doubles is not modelled;                                    *)
(*   - a key component is a record [kind, val] with val a sequence of      *)
(*     integers (code units, the micro-units, 0/1 for a boolean, empty     *)
(*     for null and undefined);                                            *)
(*   - a value held by a selector field is a record [isArray, items]: an   *)
(*     array of components, or a bare scalar (items of length one);        *)
(*   - an options object is a function from its own property names to      *)
(*     their values (DOMAIN = hasOwnProperty).                             *)
(* Arrays are mutable and shared by reference in JavaScript.  The model    *)
(* is value based, so every operation that receives an array also reports  *)
(* what the caller's array holds after the call (field "arg").             *)
(***************************************************************************)
EXTENDS Integers, Sequences, FiniteSets, TLC

VARIABLES keyEncoding, op, arg, argAfter, ret, err

vars == <<keyEncoding, op, arg, argAfter, ret, err>>

(***************************************************************************)
(* Bounds of the model.                                                    *)
(***************************************************************************)
\* longest string handed to _getPreviousKey / _getNextKey on its own
MaxStrLen == 2
\* longest structured key handed to a selector field or to getPreviousKey
MaxKeyLen == 2

(***************************************************************************)
(* Program constants.                                                      *)
(***************************************************************************)
\* String.fromCharCode keeps the low 16 bits of its argument
CodeUnitModulus == 65536
\* the code unit U+FFFF, appended by _getPreviousKey
HighChar == 65535
\* the code unit U+0001, appended by _getNextKey
LowChar == 1
\* 0.000001 in micro-units
Epsilon == 1

NoError == "none"
UnimplementedEncoding == "Unimplemented encoding"
InvalidKeySelector == "Invalid key selector"

KeyEncodings == {"bytewise", "json"}

(***************************************************************************)
(* Values.                                                                 *)
(***************************************************************************)
Null == [kind |-> "null", val |-> <<>>]
Undefined == [kind |-> "undefined", val |-> <<>>]
Bool(b) == [kind |-> "boolean", val |-> <<IF b THEN 1 ELSE 0>>]
Num(n) == [kind |-> "number", val |-> <<n>>]
Str(s) == [kind |-> "string", val |-> s]

Scalar(c) == [isArray |-> FALSE, items |-> <<c>>]
Array(k) == [isArray |-> TRUE, items |-> k]

Ok(v) == [err |-> NoError, ret |-> v]
Throw(msg) == [err |-> msg, ret |-> <<>>]

(***************************************************************************)
(* lodash.clone: a shallow copy.  The copy has the elements (or fields) of *)
(* its argument and storage of its own: writes to the copy are not seen    *)
(* through the argument.                                                   *)
(***************************************************************************)
\* mutant: no copy is made, the result is the argument itself
cloneInPlace(x) == [val |-> x, shared |-> TRUE]

clone(x) == [val |-> x, shared |-> FALSE]

(***************************************************************************)
(* _getPreviousKey / _getNextKey: the rule for one component.              *)
(***************************************************************************)
fromCharCode(n) == n % CodeUnitModulus

_getPreviousKey(key) ==
  IF key.kind = "number" THEN Num(key.val[1] - Epsilon)
  ELSE IF key.kind = "string" THEN
    IF Len(key.val) = 0 THEN key
    ELSE LET end0 == key.val[Len(key.val)]                 \* key.substr(-1)
             key1 == SubSeq(key.val, 1, Len(key.val) - 1)  \* key.substr(0, length - 1)
             end1 == <<fromCharCode(end0 - 1)>>
             end2 == end1 \o <<HighChar>>
         IN  Str(key1 \o end2)
  ELSE key

\* mutant: the last code unit is incremented, nothing is appended
_getNextKeyIncrement(key) ==
  IF key.kind = "number" THEN Num(key.val[1] + Epsilon)
  ELSE IF key.kind = "string" THEN
    IF Len(key.val) = 0 THEN key
    ELSE LET end0 == key.val[Len(key.val)]
             key1 == SubSeq(key.val, 1, Len(key.val) - 1)
         IN  Str(key1 \o <<fromCharCode(end0 + 1)>>)
  ELSE key

_getNextKey(key) ==
  IF key.kind = "number" THEN Num(key.val[1] + Epsilon)
  ELSE IF key.kind = "string" THEN
    IF Len(key.val) = 0 THEN key
    ELSE LET end0 == <<key.val[Len(key.val)]>>             \* key.substr(-1)
             key1 == SubSeq(key.val, 1, Len(key.val) - 1)  \* key.substr(0, length - 1)
             end1 == end0 \o <<LowChar>>
         IN  Str(key1 \o end1)
  ELSE key

(***************************************************************************)
(* getPreviousKey / getNextKey: the rule applied to the last component of  *)
(* a structured key.  "arg" is what the caller's array holds afterwards:   *)
(* pop and push act on the clone.                                          *)
(***************************************************************************)
getPreviousKey(key) ==
  IF keyEncoding # "bytewise" THEN [err |-> UnimplementedEncoding, ret |-> <<>>, arg |-> key]
  ELSE LET c == clone(key)
           keys == c.val
       IN  IF Len(keys) = 0 THEN [err |-> NoError, ret |-> keys, arg |-> key]
           ELSE LET last == keys[Len(keys)]                       \* keys.pop()
                    popped == SubSeq(keys, 1, Len(keys) - 1)
                    pushed == Append(popped, _getPreviousKey(last))
                IN  [err |-> NoError, ret |-> pushed,
                     arg |-> IF c.shared THEN pushed ELSE key]

getNextKey(key) ==
  IF keyEncoding # "bytewise" THEN [err |-> UnimplementedEncoding, ret |-> <<>>, arg |-> key]
  ELSE LET c == clone(key)
           keys == c.val
       IN  IF Len(keys) = 0 THEN [err |-> NoError, ret |-> keys, arg |-> key]
           ELSE LET last == keys[Len(keys)]                       \* keys.pop()
                    popped == SubSeq(keys, 1, Len(keys) - 1)
                    pushed == Append(popped, _getNextKey(last))
                IN  [err |-> NoError, ret |-> pushed,
                     arg |-> IF c.shared THEN pushed ELSE key]

getEmptyKey ==
  IF keyEncoding # "bytewise" THEN Throw(UnimplementedEncoding) ELSE Ok(<<>>)

\* mutant: the minimum key [null] of getMinimumKey is returned
getMaximumKeyAsMinimum ==
  IF keyEncoding # "bytewise" THEN Throw(UnimplementedEncoding) ELSE Ok(<<Null>>)

getMaximumKey ==
  IF keyEncoding # "bytewise" THEN Throw(UnimplementedEncoding) ELSE Ok(<<Undefined>>)

\* the result is the argument itself when it is an array, else a new array
normalizeKey(key) ==
  IF keyEncoding # "bytewise" THEN Throw(UnimplementedEncoding)
  ELSE Ok(IF ~key.isArray THEN Array(key.items) ELSE key)

\* mutant: the operands are taken in the other order
concatKeysSwapped(key1, key2) ==
  IF keyEncoding # "bytewise" THEN Throw(UnimplementedEncoding) ELSE Ok(key2 \o key1)

concatKeys(key1, key2) ==
  IF keyEncoding # "bytewise" THEN Throw(UnimplementedEncoding) ELSE Ok(key1 \o key2)

(***************************************************************************)
(* Options objects.                                                        *)
(***************************************************************************)
KeyFields == {"value", "start", "startAfter", "end", "endBefore", "prefix"}

Has(o, f) == f \in DOMAIN o
Put(o, f, v) == [g \in (DOMAIN o) \cup {f} |-> IF g = f THEN v ELSE o[g]]
Delete(o, f) == [g \in (DOMAIN o) \ {f} |-> o[g]]
\* options.reverse as a condition: absent (undefined) and false are falsy
Reverse(o) == Has(o, "reverse") /\ o["reverse"] = TRUE

\* the arrays the caller's object refers to, by the field that holds them
ArraysOf(options) ==
  [f \in {g \in (DOMAIN options) \cap KeyFields : options[g].isArray} |-> options[f].items]

(***************************************************************************)
(* normalizeKeySelectors, block by block.  A run is the record             *)
(*   o      the object the function works on (the clone),                  *)
(*   err    the error thrown so far, if any (later blocks are skipped),    *)
(*   arrays what the caller's arrays hold.                                 *)
(***************************************************************************)
Fail(s, msg) == [s EXCEPT !.err = msg]
Set(s, f, v) == [s EXCEPT !.o = Put(s.o, f, v)]
Running(s) == s.err = NoError

\* mutant: value is checked against start only
ValueBlockNoEndCheck(s) ==
  IF ~Running(s) \/ ~Has(s.o, "value") THEN s
  ELSE IF Has(s.o, "start") THEN Fail(s, InvalidKeySelector)
  ELSE Set(Set(s, "start", s.o["value"]), "end", s.o["value"])

\* lines 138-143
ValueBlock(s) ==
  IF ~Running(s) \/ ~Has(s.o, "value") THEN s
  ELSE IF Has(s.o, "start") THEN Fail(s, InvalidKeySelector)
  ELSE IF Has(s.o, "end") THEN Fail(s, InvalidKeySelector)
  ELSE Set(Set(s, "start", s.o["value"]), "end", s.o["value"])

\* lines 147-150
StartBlock(s) ==
  IF ~Running(s) \/ ~Has(s.o, "start") THEN s
  ELSE IF Has(s.o, "startAfter") THEN Fail(s, InvalidKeySelector)
  ELSE LET r == normalizeKey(s.o["start"])
       IN  IF r.err # NoError THEN Fail(s, r.err) ELSE Set(s, "start", r.ret)

\* lines 151-156
StartAfterBlock(s) ==
  IF ~Running(s) \/ ~Has(s.o, "startAfter") THEN s
  ELSE LET n == normalizeKey(s.o["startAfter"])
       IN  IF n.err # NoError THEN Fail(s, n.err)
           ELSE LET r == IF Reverse(s.o) THEN getPreviousKey(n.ret.items)
                                         ELSE getNextKey(n.ret.items)
                    \* normalizeKey hands an array argument through as it is
                    seen == IF s.o["startAfter"].isArray /\ Has(s.arrays, "startAfter")
                            THEN [s EXCEPT !.arrays["startAfter"] = r.arg]
                            ELSE s
                IN  IF r.err # NoError THEN Fail(seen, r.err)
                    ELSE [seen EXCEPT !.o = Delete(Put(s.o, "start", Array(r.ret)), "startAfter")]

\* lines 157-159
StartDefaultBlock(s) ==
  IF ~Running(s) \/ Has(s.o, "start") THEN s
  ELSE LET r == getEmptyKey
       IN  IF r.err # NoError THEN Fail(s, r.err) ELSE Set(s, "start", Array(r.ret))

\* mutant: the lower bound of a reverse scan gets no sentinel
StartSentinelBlockSkipped(s) == s

\* lines 160-162
StartSentinelBlock(s) ==
  IF ~Running(s) \/ ~Reverse(s.o) THEN s
  ELSE LET m == getMaximumKey
       IN  IF m.err # NoError THEN Fail(s, m.err)
           ELSE LET r == concatKeys(s.o["start"].items, m.ret)
                IN  IF r.err # NoError THEN Fail(s, r.err) ELSE Set(s, "start", Array(r.ret))

\* lines 164-167
EndBlock(s) ==
  IF ~Running(s) \/ ~Has(s.o, "end") THEN s
  ELSE IF Has(s.o, "endBefore") THEN Fail(s, InvalidKeySelector)
  ELSE LET r == normalizeKey(s.o["end"])
       IN  IF r.err # NoError THEN Fail(s, r.err) ELSE Set(s, "end", r.ret)

\* lines 168-173
EndBeforeBlock(s) ==
  IF ~Running(s) \/ ~Has(s.o, "endBefore") THEN s
  ELSE LET n == normalizeKey(s.o["endBefore"])
       IN  IF n.err # NoError THEN Fail(s, n.err)
           ELSE LET r == IF Reverse(s.o) THEN getNextKey(n.ret.items)
                                         ELSE getPreviousKey(n.ret.items)
                    seen == IF s.o["endBefore"].isArray /\ Has(s.arrays, "endBefore")
                            THEN [s EXCEPT !.arrays["endBefore"] = r.arg]
                            ELSE s
                IN  IF r.err # NoError THEN Fail(seen, r.err)
                    ELSE [seen EXCEPT !.o = Delete(Put(s.o, "end", Array(r.ret)), "endBefore")]

\* lines 174-176
EndDefaultBlock(s) ==
  IF ~Running(s) \/ Has(s.o, "end") THEN s
  ELSE LET r == getEmptyKey
       IN  IF r.err # NoError THEN Fail(s, r.err) ELSE Set(s, "end", Array(r.ret))

\* lines 177-179
EndSentinelBlock(s) ==
  IF ~Running(s) \/ Reverse(s.o) THEN s
  ELSE LET m == getMaximumKey
       IN  IF m.err # NoError THEN Fail(s, m.err)
           ELSE LET r == concatKeys(s.o["end"].items, m.ret)
                IN  IF r.err # NoError THEN Fail(s, r.err) ELSE Set(s, "end", Array(r.ret))

\* lines 181-186
PrefixBlock(s) ==
  IF ~Running(s) \/ ~Has(s.o, "prefix") THEN s
  ELSE LET p == normalizeKey(s.o["prefix"])
       IN  IF p.err # NoError THEN Fail(s, p.err)
           ELSE LET a == concatKeys(p.ret.items, s.o["start"].items)
                    b == concatKeys(p.ret.items, s.o["end"].items)
                IN  IF a.err # NoError THEN Fail(s, a.err)
                    ELSE IF b.err # NoError THEN Fail(s, b.err)
                    ELSE [s EXCEPT !.o = Delete(Put(Put(s.o, "start", Array(a.ret)),
                                                    "end", Array(b.ret)), "prefix")]

\* mutant: the bounds of a reverse scan are not swapped
SwapBlockNoSwap(s) == s

\* lines 188-192
SwapBlock(s) ==
  IF ~Running(s) \/ ~Reverse(s.o) THEN s
  ELSE LET tmp == s.o["start"]
       IN  Set(Set(s, "start", s.o["end"]), "end", tmp)

(***************************************************************************)
(* normalizeKeySelectors(options): err and ret are the error thrown or the  *)
(* object returned; obj and arrays are what the caller's options object    *)
(* and the arrays it refers to hold after the call.                        *)
(***************************************************************************)
normalizeKeySelectors(options) ==
  LET c == clone(options)
      s0 == [o |-> c.val, err |-> NoError, arrays |-> ArraysOf(options)]
      s1 == StartSentinelBlock(StartDefaultBlock(StartAfterBlock(StartBlock(ValueBlock(s0)))))
      s2 == EndSentinelBlock(EndDefaultBlock(EndBeforeBlock(EndBlock(s1))))
      s3 == SwapBlock(PrefixBlock(s2))
  IN  [err |-> s3.err,
       ret |-> IF s3.err = NoError THEN s3.o ELSE <<>>,
       obj |-> IF c.shared THEN s3.o ELSE options,
       arrays |-> s3.arrays]

(***************************************************************************)
(* Inputs.                                                                 *)
(***************************************************************************)
RECURSIVE SeqsUpTo(_, _)
\* the sequences over S of length at most n
SeqsUpTo(S, n) ==
  IF n = 0 THEN {<<>>}
  ELSE LET shorter == SeqsUpTo(S, n - 1)
       IN  shorter \cup {Append(q, x) : q \in shorter, x \in S}

\* code units: the lowest two, two letters, the highest two
AdjAlphabet == {0, 1, 97, 98, 65534, 65535}
AdjStrings == SeqsUpTo(AdjAlphabet, MaxStrLen)
\* components handed to _getPreviousKey / _getNextKey
AdjComponents ==
  {Str(s) : s \in AdjStrings} \cup {Num(0), Num(-1), Num(1500000), Bool(FALSE), Bool(TRUE), Null, Undefined}

\* components of structured keys: the two sentinels, a number and the
\* strings "", "a" and "a\u0000"
KeyComponents ==
  {Null, Undefined, Num(0), Str(<<>>), Str(<<97>>), Str(<<97, 0>>)}
Keys == SeqsUpTo(KeyComponents, MaxKeyLen)
\* what a selector field may hold: a structured key or a bare scalar
RichValues == {Array(k) : k \in Keys} \cup {Scalar(c) : c \in KeyComponents}
SmallValues == {Scalar(Str(<<97>>)), Array(<<Num(0), Str(<<97, 0>>)>>)}
ReverseChoices == {"absent", "false", "true"}

MkOptions(fields, rev) ==
  [g \in (DOMAIN fields) \cup (IF rev = "absent" THEN {} ELSE {"reverse"}) |->
     IF g = "reverse" THEN rev = "true" ELSE fields[g]]

\* every combination of present fields, over the small values
FullConfigs ==
  {MkOptions(fields, rev) :
     fields \in UNION {[P -> SmallValues] : P \in SUBSET KeyFields},
     rev \in ReverseChoices}
\* one selector field over every value, alone or under a prefix
FieldConfigs ==
  {MkOptions([g \in {f} |-> v], rev) :
     f \in KeyFields, v \in RichValues, rev \in ReverseChoices}
  \cup
  {MkOptions([g \in {f, "prefix"} |-> IF g = f THEN v ELSE p], rev) :
     f \in KeyFields \ {"prefix"}, v \in RichValues, p \in SmallValues,
     rev \in ReverseChoices}
Configs == FullConfigs \cup FieldConfigs

(***************************************************************************)
(* The state machine: a store is constructed with its key encoding, and a  *)
(* caller calls one of its methods and then discards the result.  The      *)
(* store keeps no state between calls.                                     *)
(***************************************************************************)
Init ==
  /\ keyEncoding \in KeyEncodings
  /\ op = "idle"
  /\ arg = <<>>
  /\ argAfter = <<>>
  /\ ret = <<>>
  /\ err = NoError

Call_getPreviousKeyComponent ==
  /\ op = "idle"
  /\ \E key \in AdjComponents :
       /\ op' = "_getPreviousKey"
       /\ arg' = key
       /\ argAfter' = key
       /\ ret' = _getPreviousKey(key)
       /\ err' = NoError
  /\ UNCHANGED keyEncoding

Call_getNextKeyComponent ==
  /\ op = "idle"
  /\ \E key \in AdjComponents :
       /\ op' = "_getNextKey"
       /\ arg' = key
       /\ argAfter' = key
       /\ ret' = _getNextKey(key)
       /\ err' = NoError
  /\ UNCHANGED keyEncoding

CallGetPreviousKey ==
  /\ op = "idle"
  /\ \E key \in Keys :
       LET r == getPreviousKey(key)
       IN  /\ op' = "getPreviousKey"
           /\ arg' = key
           /\ argAfter' = r.arg
           /\ ret' = r.ret
           /\ err' = r.err
  /\ UNCHANGED keyEncoding

CallGetNextKey ==
  /\ op = "idle"
  /\ \E key \in Keys :
       LET r == getNextKey(key)
       IN  /\ op' = "getNextKey"
           /\ arg' = key
           /\ argAfter' = r.arg
           /\ ret' = r.ret
           /\ err' = r.err
  /\ UNCHANGED keyEncoding

CallNormalizeKeySelectors ==
  /\ op = "idle"
  /\ \E options \in Configs :
       LET r == normalizeKeySelectors(options)
       IN  /\ op' = "normalizeKeySelectors"
           /\ arg' = options
           /\ argAfter' = [obj |-> r.obj, arrays |-> r.arrays]
           /\ ret' = r.ret
           /\ err' = r.err
  /\ UNCHANGED keyEncoding

\* the caller is done with the result
Discard ==
  /\ op # "idle"
  /\ op' = "idle"
  /\ arg' = <<>>
  /\ argAfter' = <<>>
  /\ ret' = <<>>
  /\ err' = NoError
  /\ UNCHANGED keyEncoding

Next ==
  \/ Call_getPreviousKeyComponent
  \/ Call_getNextKeyComponent
  \/ CallGetPreviousKey
  \/ CallGetNextKey
  \/ CallNormalizeKeySelectors
  \/ Discard

Spec == Init /\ [][Next]_vars

(***************************************************************************)
(* The orders the properties are stated in: those of the tuple scheme the  *)
(* store's keys are compared in (the encoding itself is an outside         *)
(* library and is not modelled).                                           *)
(*   strings: lexicographic in their code units;                           *)
(*   components: null < booleans < numbers < strings < undefined, the      *)
(*     minimum and maximum sentinels at the two ends;                      *)
(*   structured keys: component-wise, a proper prefix first.               *)
(***************************************************************************)
SeqLess(a, b) ==
  \E i \in 1..Len(b) :
    /\ i <= Len(a) + 1
    /\ \A j \in 1..(i - 1) : a[j] = b[j]
    /\ (i = Len(a) + 1 \/ a[i] < b[i])

KindRank(c) ==
  CASE c.kind = "null" -> 0
    [] c.kind = "boolean" -> 1
    [] c.kind = "number" -> 2
    [] c.kind = "string" -> 3
    [] c.kind = "undefined" -> 4

CompLess(a, b) ==
  \/ KindRank(a) < KindRank(b)
  \/ a.kind = b.kind /\ SeqLess(a.val, b.val)

KeyLess(a, b) ==
  \E i \in 1..Len(b) :
    /\ i <= Len(a) + 1
    /\ \A j \in 1..(i - 1) : a[j] = b[j]
    /\ (i = Len(a) + 1 \/ CompLess(a[i], b[i]))

\* k lies in the half-open range [start, end)
InRange(k, start, end) == ~KeyLess(k, start) /\ KeyLess(k, end)

\* p is the sequence of the leading elements of k
HasPrefix(k, p) == Len(p) <= Len(k) /\ SubSeq(k, 1, Len(p)) = p

\* k has p as its leading components, and the component after p, if there
\* is one, is not the maximum sentinel
Under(k, p) == HasPrefix(k, p) /\ (Len(k) = Len(p) \/ k[Len(p) + 1] # Undefined)

\* the keys a range is probed with: every key of the model, and every
\* extension of the key q by one of them
Probes(q) == Keys \cup {q \o r : r \in Keys}

\* the strings an adjacency is probed with: up to two code units longer
\* than the strings handed to the rules
ProbeStrings == SeqsUpTo(AdjAlphabet, MaxStrLen + 2)

Between(t, lo, hi) == SeqLess(lo, t) /\ SeqLess(t, hi)

\* the fields other than reverse that a config has
FieldsOf(o) == (DOMAIN o) \cap KeyFields

\* a call of normalizeKeySelectors on a store of the tuple ("bytewise") scheme,
\* the only scheme the adjacency and range operations are defined for
NormalizeCall == op = "normalizeKeySelectors" /\ keyEncoding = "bytewise"

NonEmptyString(c) == c.kind = "string" /\ Len(c.val) > 0

(***************************************************************************)
(* C1.  Mutual exclusion: a config that has value together with start or   *)
(* with end, or both start and startAfter, or both end and endBefore, is   *)
(* refused with the invalid-selector error and nothing is returned,        *)
(* whatever the values of the fields, prefix and reverse.  (On a store of   *)
(* another key encoding the call fails as well, a conflict of end with     *)
(* endBefore being met after the first use of the encoding.)               *)
(***************************************************************************)
Conflicting(o) ==
  \/ Has(o, "value") /\ (Has(o, "start") \/ Has(o, "end"))
  \/ Has(o, "start") /\ Has(o, "startAfter")
  \/ Has(o, "end") /\ Has(o, "endBefore")

C1_ConflictsRefused ==
  (op = "normalizeKeySelectors" /\ Conflicting(arg)) =>
    /\ err # NoError
    /\ ret = <<>>
    /\ keyEncoding = "bytewise" => err = InvalidKeySelector

\* end with endBefore, and no conflict on the lower bound: the check of
\* line 165 is the one that refuses
C1_Witness ==
  /\ NormalizeCall
  /\ Has(arg, "end") /\ Has(arg, "endBefore") /\ Has(arg, "prefix") /\ Reverse(arg)
  /\ ~Has(arg, "value") /\ ~Has(arg, "start")
  /\ err = InvalidKeySelector

(***************************************************************************)
(* C4.  Adjacency bracketing: for every non-empty string s, including the  *)
(* strings that end in code unit 0, previous(s) < s < next(s) in           *)
(* lexicographic code-unit order.                                          *)
(***************************************************************************)
C4_Bracketing ==
  /\ (op = "_getPreviousKey" /\ NonEmptyString(arg)) => SeqLess(ret.val, arg.val)
  /\ (op = "_getNextKey" /\ NonEmptyString(arg)) => SeqLess(arg.val, ret.val)

(***************************************************************************)
(* C5.  Immediate adjacency, as claimed: previous(s) is the greatest       *)
(* string below s and next(s) the smallest string above s, so that no      *)
(* string lies strictly between previous(s) and s, nor strictly between s  *)
(* and next(s).  The strings that end in code unit 0, where previous(s)    *)
(* is not even below s (C4), are left out of the predecessor half: the     *)
(* claim fails without them.                                               *)
(***************************************************************************)
C5_Original ==
  /\ (op = "_getPreviousKey" /\ NonEmptyString(arg) /\ arg.val[Len(arg.val)] # 0) =>
       /\ SeqLess(ret.val, arg.val)
       /\ \A t \in ProbeStrings : ~Between(t, ret.val, arg.val)
  /\ (op = "_getNextKey" /\ NonEmptyString(arg)) =>
       /\ SeqLess(arg.val, ret.val)
       /\ \A t \in ProbeStrings : ~Between(t, arg.val, ret.val)

(***************************************************************************)
(* C5, amended.  For every non-empty string s: s < next(s), every string   *)
(* strictly between s and next(s) is s followed by code unit 0 and any     *)
(* suffix, and every string strictly between previous(s) and s is          *)
(* previous(s) followed by at least one more code unit.                    *)
(***************************************************************************)
C5_Amended ==
  /\ (op = "_getPreviousKey" /\ NonEmptyString(arg)) =>
       \A t \in ProbeStrings :
         Between(t, ret.val, arg.val) => (HasPrefix(t, ret.val) /\ Len(t) > Len(ret.val))
  /\ (op = "_getNextKey" /\ NonEmptyString(arg)) =>
       /\ SeqLess(arg.val, ret.val)
       /\ \A t \in ProbeStrings :
            Between(t, arg.val, ret.val) => HasPrefix(t, arg.val \o <<0>>)

\* a string with others strictly between its predecessor and itself
C5_Witness ==
  /\ op = "_getPreviousKey" /\ NonEmptyString(arg)
  /\ Len(arg.val) = MaxStrLen
  /\ SeqLess(ret.val, arg.val)
  /\ \E t \in ProbeStrings : Between(t, ret.val, arg.val)

(***************************************************************************)
(* C6.  An accepted config comes back with none of the selector fields     *)
(* value, startAfter, endBefore, prefix.                                   *)
(***************************************************************************)
C6_SelectorsConsumed ==
  (op = "normalizeKeySelectors" /\ err = NoError) =>
    (DOMAIN ret) \cap {"value", "startAfter", "endBefore", "prefix"} = {}

(***************************************************************************)
(* C2.  Prefix containment, as claimed: normalizing {prefix: p} (forward)  *)
(* gives start = p and end = p ++ [maximum sentinel], and a key lies in    *)
(* [start, end) exactly when it has p as its leading components.           *)
(***************************************************************************)
PrefixOnlyForward(o) ==
  FieldsOf(o) = {"prefix"} /\ o["prefix"].isArray /\ ~Reverse(o)

C2_Original ==
  (NormalizeCall /\ PrefixOnlyForward(arg)) =>
    LET p == arg["prefix"].items
    IN  /\ err = NoError
        /\ ret["start"] = Array(p)
        /\ ret["end"] = Array(p \o <<Undefined>>)
        /\ \A k \in Probes(p) :
             InRange(k, ret["start"].items, ret["end"].items) <=> HasPrefix(k, p)

(***************************************************************************)
(* C2, amended.  Normalizing {prefix: p} (forward) gives start = p and     *)
(* end = p ++ [maximum sentinel]; a key lies in [start, end) exactly when  *)
(* it has p as its leading components and the component that follows p,    *)
(* if any, is not the maximum sentinel.                                    *)
(***************************************************************************)
C2_Amended ==
  (NormalizeCall /\ PrefixOnlyForward(arg)) =>
    LET p == arg["prefix"].items
    IN  /\ err = NoError
        /\ ret["start"] = Array(p)
        /\ ret["end"] = Array(p \o <<Undefined>>)
        /\ \A k \in Probes(p) :
             InRange(k, ret["start"].items, ret["end"].items) <=> Under(k, p)

\* a prefix of the greatest length, with keys inside and outside its range
C2_Witness ==
  /\ NormalizeCall /\ PrefixOnlyForward(arg) /\ err = NoError
  /\ Len(arg["prefix"].items) = MaxKeyLen
  /\ \E k \in Probes(arg["prefix"].items) :
       /\ Len(k) > MaxKeyLen
       /\ InRange(k, ret["start"].items, ret["end"].items)
  /\ \E k \in Probes(arg["prefix"].items) :
       ~InRange(k, ret["start"].items, ret["end"].items)

(***************************************************************************)
(* C3.  startAfter under reverse: for a key k whose last component is a    *)
(* non-empty string, the range returned for {startAfter: k, reverse: true} *)
(* holds neither k nor any key that sorts at or after k.                   *)
(***************************************************************************)
StartAfterReverse(o) ==
  /\ FieldsOf(o) = {"startAfter"} /\ Reverse(o)
  /\ o["startAfter"].isArray
  /\ Len(o["startAfter"].items) > 0
  /\ NonEmptyString(o["startAfter"].items[Len(o["startAfter"].items)])

C3_StartAfterReverse ==
  (NormalizeCall /\ StartAfterReverse(arg)) =>
    LET k == arg["startAfter"].items
    IN  /\ err = NoError
        /\ \A q \in Probes(k) :
             ~KeyLess(q, k) => ~InRange(q, ret["start"].items, ret["end"].items)

(***************************************************************************)
(* C7.  value as a point range, as claimed: the range returned for         *)
(* {value: v}, forward or reverse, with or without a prefix p, holds the   *)
(* key p ++ normalizeKey(v) and no other key.                              *)
(***************************************************************************)
ValueConfig(o) == Has(o, "value") /\ FieldsOf(o) \subseteq {"value", "prefix"}

\* p ++ normalizeKey(v): a bare scalar stands for the key of that one component
ValueKey(o) ==
  (IF Has(o, "prefix") THEN o["prefix"].items ELSE <<>>) \o o["value"].items

C7_Original ==
  (NormalizeCall /\ ValueConfig(arg)) =>
    /\ err = NoError
    /\ \A k \in Probes(ValueKey(arg)) :
         InRange(k, ret["start"].items, ret["end"].items) <=> k = ValueKey(arg)

(***************************************************************************)
(* C7, amended.  The range returned for {value: v}, forward or reverse,    *)
(* with or without a prefix p, holds the key p ++ normalizeKey(v) and      *)
(* every key that extends it by components of which the first is not the   *)
(* maximum sentinel, and no other key.                                     *)
(***************************************************************************)
C7_Amended ==
  (NormalizeCall /\ ValueConfig(arg)) =>
    /\ err = NoError
    /\ \A k \in Probes(ValueKey(arg)) :
         InRange(k, ret["start"].items, ret["end"].items) <=> Under(k, ValueKey(arg))

\* a reverse value query under a prefix, whose range holds a longer key
C7_Witness ==
  /\ NormalizeCall /\ ValueConfig(arg) /\ err = NoError
  /\ Has(arg, "prefix") /\ Reverse(arg)
  /\ \E k \in Probes(ValueKey(arg)) :
       /\ k # ValueKey(arg)
       /\ InRange(k, ret["start"].items, ret["end"].items)

(***************************************************************************)
(* C8.  Reverse symmetry: the pair returned for {prefix: p, reverse: true} *)
(* is in ascending order and delimits the same keys as the pair returned   *)
(* for {prefix: p}; the two results differ in the reverse flag only.       *)
(***************************************************************************)
PrefixOnlyReverse(o) ==
  FieldsOf(o) = {"prefix"} /\ o["prefix"].isArray /\ Reverse(o)

C8_ReverseSymmetry ==
  (NormalizeCall /\ PrefixOnlyReverse(arg)) =>
    LET p == arg["prefix"].items
        fwd == normalizeKeySelectors([g \in {"prefix"} |-> arg["prefix"]])
    IN  /\ err = NoError /\ fwd.err = NoError
        /\ ~KeyLess(ret["end"].items, ret["start"].items)
        /\ \A k \in Probes(p) :
             InRange(k, ret["start"].items, ret["end"].items)
               <=> InRange(k, fwd.ret["start"].items, fwd.ret["end"].items)
        /\ DOMAIN ret = (DOMAIN fwd.ret) \cup {"reverse"}
        /\ ret["reverse"] = TRUE
        /\ \A f \in DOMAIN fwd.ret : ret[f] = fwd.ret[f]

C8_Witness ==
  /\ NormalizeCall /\ PrefixOnlyReverse(arg) /\ err = NoError
  /\ Len(arg["prefix"].items) = MaxKeyLen
  /\ \E k \in Probes(arg["prefix"].items) :
       InRange(k, ret["start"].items, ret["end"].items)

(***************************************************************************)
(* C9.  No mutation of the argument: after a call of normalizeKeySelectors *)
(* that returns or fails, the caller's options object has the fields and   *)
(* values it had and the arrays it refers to hold the components they      *)
(* held; likewise the key handed to getPreviousKey or getNextKey.          *)
(***************************************************************************)
C9_ArgumentUntouched ==
  /\ op = "normalizeKeySelectors" =>
       (argAfter.obj = arg /\ argAfter.arrays = ArraysOf(arg))
  /\ op \in {"getPreviousKey", "getNextKey"} => argAfter = arg

\* a call that rewrote the last component of an array the caller passed
C9_Witness ==
  /\ NormalizeCall /\ err = NoError
  /\ Has(arg, "startAfter") /\ arg["startAfter"].isArray /\ Has(arg, "prefix")
  /\ Len(arg["startAfter"].items) = MaxKeyLen
  /\ ~HasPrefix(ret["start"].items, arg["prefix"].items \o arg["startAfter"].items)

(***************************************************************************)
(* C10.  Resolution against the reference algorithm.  With                 *)
(*   L = normalizeKey(start or value), else next(startAfter) forward or    *)
(*       previous(startAfter) in reverse, else the empty key,              *)
(*   U = normalizeKey(end or value), else previous(endBefore) forward or   *)
(*       next(endBefore) in reverse, else the empty key,                   *)
(*   P = normalizeKey(prefix) or the empty key:                            *)
(* an accepted forward config returns start = P ++ L and                   *)
(* end = P ++ U ++ [maximum sentinel]; an accepted reverse config returns  *)
(* start = P ++ U and end = P ++ L ++ [maximum sentinel].                  *)
(***************************************************************************)
RefLower(o) ==
  IF Has(o, "start") THEN o["start"].items
  ELSE IF Has(o, "value") THEN o["value"].items
  ELSE IF Has(o, "startAfter") THEN
    (IF Reverse(o) THEN getPreviousKey(o["startAfter"].items).ret
                   ELSE getNextKey(o["startAfter"].items).ret)
  ELSE <<>>

RefUpper(o) ==
  IF Has(o, "end") THEN o["end"].items
  ELSE IF Has(o, "value") THEN o["value"].items
  ELSE IF Has(o, "endBefore") THEN
    (IF Reverse(o) THEN getNextKey(o["endBefore"].items).ret
                   ELSE getPreviousKey(o["endBefore"].items).ret)
  ELSE <<>>

RefPrefix(o) == IF Has(o, "prefix") THEN o["prefix"].items ELSE <<>>

C10_Reference ==
  (NormalizeCall /\ err = NoError) =>
    IF Reverse(arg)
    THEN /\ ret["start"] = Array(RefPrefix(arg) \o RefUpper(arg))
         /\ ret["end"] = Array(RefPrefix(arg) \o RefLower(arg) \o <<Undefined>>)
    ELSE /\ ret["start"] = Array(RefPrefix(arg) \o RefLower(arg))
         /\ ret["end"] = Array(RefPrefix(arg) \o RefUpper(arg) \o <<Undefined>>)

\* an accepted reverse config with both open bounds under a prefix
C10_Witness ==
  /\ NormalizeCall /\ err = NoError /\ Reverse(arg)
  /\ FieldsOf(arg) = {"startAfter", "endBefore", "prefix"}
  /\ ret["start"].items # ret["end"].items

====
